---- MODULE Spec2Model ----
(***************************************************************************)
(* The box game of asaphus_coding_challenge.cpp: Box, GreenBox, BlueBox,   *)
(* findSmallestBox, Player::takeTurn and play.                             *)
(*                                                                         *)
(* Numbers.  A token weight is a uint32_t and may be as large as 2^32 - 1. *)
(* It is written as the integer of the same 32 bits: n for a small n, and  *)
(* -n for 2^32 - n (-1 is the largest uint32_t).  Weights and scores are   *)
(* doubles.  A double is written as a triple <<a, b, c>> that stands for   *)
(* a + b * 2^32 + c * 2^64, with small integer coefficients (a and b may   *)
(* be negative: 2^32 - 1 is <<-1, 1, 0>>).  The arithmetic on triples is   *)
(* exact; the rounding of double arithmetic is not modelled.  To stay in   *)
(* the integers, a box weight is kept in tenths (WeightScale), a mean in   *)
(* sixths (MeanScale) and a score in thirty-sixths (ScoreScale): the mean  *)
(* of 1, 2 or 3 integers is a whole number of sixths.                      *)
(***************************************************************************)
EXTENDS Integers, Sequences, FiniteSets

VARIABLES
    input_weights,  \* play's argument: the sequence of token weights
    made,           \* the initial weight (tenths) each box was constructed with
    boxes,          \* the vector of boxes, indexed from 0 as in the source
    it,             \* 0-based index of the next element of the range-for loop
    count,          \* play's uint16_t turn counter
    score_A,        \* player_A.score_ (thirty-sixths)
    score_B,        \* player_B.score_ (thirty-sixths)
    turn,           \* log: the latest call of takeTurn (NoTurn before the first)
    pc,             \* "loop": in the for loop; "done": play has returned
    result          \* the pair play returned (<<>> before it returns)

vars == <<input_weights, made, boxes, it, count, score_A, score_B, turn, pc, result>>

----------------------------------------------------------------------------
(* Bounds of the model *)

\* longest input sequence of a game
MaxLen == 5
\* small token weights are 0..MaxWeight (the largest uint32_t is added to them)
MaxWeight == 2
\* longest input sequence fed to a hand-made box collection
HarnessLen == 4
\* most boxes in a hand-made box collection
MaxBoxes == 3
\* number of zero-weight tokens already consumed when a long game is taken up
LongPrefix == 65534
\* most tokens that follow the prefix of a long game
LongTail == 3
\* longest input sequence of a game that is followed by another game
TwiceLen == 3

----------------------------------------------------------------------------
(* Numbers *)

WeightScale == 2 * 5
MeanScale == 2 * 3
ScoreScale == MeanScale * MeanScale

\* the number n, for a small integer n
Num(n) == <<n, 0, 0>>

\* the element of a singleton set.  The({e(x) : x \in {v}}) is e(v) with v
\* computed once and named x, as a local variable of the source is
The(S) == CHOOSE x \in S : TRUE

\* the largest uint32_t, 2^32 - 1: all 32 bits set
UINT32_MAX == 0 - 1

\* the saturation bound of play's counter
UINT16_MAX == 65535

\* what 0.0 / 0 yields, and what a read through end() of an empty range yields
NaN == <<"NaN">>
Undefined == <<"undefined">>

\* a number, as opposed to NaN or Undefined
IsNum(x) == Len(x) = 3

\* x + y on doubles; NaN (or an undefined value) in, the same out
NAdd(x, y) ==
    IF ~IsNum(x) THEN x
    ELSE IF ~IsNum(y) THEN y
    ELSE <<x[1] + y[1], x[2] + y[2], x[3] + y[3]>>

NScale(k, x) == <<k * x[1], k * x[2], k * x[3]>>

\* product of two numbers below 2^64 in size (no 2^64 coefficient)
NMul(x, y) == <<x[1] * y[1], x[1] * y[2] + x[2] * y[1], x[2] * y[2]>>

\* x < y: the coefficients are far smaller than 2^31, so the order is lexicographic
NLess(x, y) ==
    /\ IsNum(x)
    /\ IsNum(y)
    /\ \/ x[3] < y[3]
       \/ x[3] = y[3] /\ x[2] < y[2]
       \/ x[3] = y[3] /\ x[2] = y[2] /\ x[1] < y[1]

NLeq(x, y) == x = y \/ NLess(x, y)

\* static_cast<double>(weight): the value of the uint32_t w, exactly
ToDouble(w) == IF w >= 0 THEN <<w, 0, 0>> ELSE <<w, 1, 0>>

\* uint32_t addition of x and y: the value of x + y modulo 2^32
AddU32(x, y) ==
    LET s == NAdd(ToDouble(x), ToDouble(y))
    IN  IF NLess(s, <<0, 1, 0>>) THEN s ELSE NAdd(s, <<0, -1, 0>>)

\* x < y on uint32_t
LessU32(x, y) == NLess(ToDouble(x), ToDouble(y))

----------------------------------------------------------------------------
(* Box, GreenBox, BlueBox *)

\* Box::Box via makeGreenBox / makeBlueBox; initial_weight in tenths
makeGreenBox(initial_weight) ==
    [kind |-> "green", weight_ |-> Num(initial_weight), absorbed_weights |-> <<>>]

makeBlueBox(initial_weight) ==
    [kind |-> "blue", weight_ |-> Num(initial_weight), absorbed_weights |-> <<>>]

\* mutant of Box::operator<: <= for <, so that a later box of equal weight wins
BoxLess_OrEqual(lhs, rhs) == NLeq(lhs.weight_, rhs.weight_)

\* Box::operator<
BoxLess(lhs, rhs) == NLess(lhs.weight_, rhs.weight_)

\* mutant of Box::boxAbsorb: the token is recorded but not added to the weight
boxAbsorb_NoWeight(box, weight) ==
    [box EXCEPT !.absorbed_weights = Append(@, weight)]

\* mutant of Box::boxAbsorb: the token is inserted at the front of the history
boxAbsorb_PushFront(box, weight) ==
    [box EXCEPT !.absorbed_weights = <<weight>> \o @,
                !.weight_ = NAdd(@, NScale(WeightScale, ToDouble(weight)))]

\* Box::boxAbsorb
boxAbsorb(box, weight) ==
    [box EXCEPT !.absorbed_weights = Append(@, weight),
                !.weight_ = NAdd(@, NScale(WeightScale, ToDouble(weight)))]

RECURSIVE SumFirst(_, _)
\* the for loop of GreenBox::calcScore over the first n weights of ws:
\* mean_weight += static_cast<double>(weight)
SumFirst(ws, n) ==
    IF n = 0 THEN Num(0)
    ELSE The({NAdd(mean_weight, ToDouble(ws[n])) : mean_weight \in {SumFirst(ws, n - 1)}})

\* the for loop of GreenBox::calcScore over all of ws
SumDoubles(ws) == SumFirst(ws, Len(ws))

\* mutant of recent_weights: the three oldest weights for the three newest
RecentWeights_Oldest(absorbed_weights) ==
    IF Len(absorbed_weights) < 3 THEN absorbed_weights
    ELSE <<absorbed_weights[1], absorbed_weights[2], absorbed_weights[3]>>

\* recent_weights of GreenBox::calcScore
RecentWeights(absorbed_weights) ==
    LET abs_size == Len(absorbed_weights)
    IN  IF abs_size < 3 THEN absorbed_weights
        ELSE <<absorbed_weights[abs_size - 2],
               absorbed_weights[abs_size - 1],
               absorbed_weights[abs_size]>>

\* GreenBox::calcScore, in thirty-sixths; 0.0 / 0 is NaN
GreenScore(absorbed_weights) ==
    LET recent_weights == RecentWeights(absorbed_weights)
        size == Len(recent_weights)
    IN  IF size = 0 THEN NaN
        ELSE The({NMul(mean_weight, mean_weight) :
                     mean_weight \in {NScale(MeanScale \div size, SumDoubles(recent_weights))}})

\* *std::min_element(begin, end) of a non-empty range
MinElement(ws) ==
    CHOOSE m \in {ws[i] : i \in DOMAIN ws} : \A i \in DOMAIN ws : ~LessU32(ws[i], m)

\* *std::max_element(begin, end) of a non-empty range
MaxElement(ws) ==
    CHOOSE m \in {ws[i] : i \in DOMAIN ws} : \A i \in DOMAIN ws : ~LessU32(m, ws[i])

\* BlueBox::pairing, in thirty-sixths: min + max is added as uint32_t, then cast
pairing(min, max) ==
    The({NAdd(NScale(ScoreScale \div 2, NMul(sum, NAdd(sum, Num(1)))),
              NScale(ScoreScale, ToDouble(max))) :
            sum \in {AddU32(min, max)}})

\* BlueBox::calcScore; dereferencing end() of an empty range is undefined
BlueScore(absorbed_weights) ==
    IF absorbed_weights = <<>> THEN Undefined
    ELSE The({pairing(min_Element, max_Element) :
                 min_Element \in {MinElement(absorbed_weights)},
                 max_Element \in {MaxElement(absorbed_weights)}})

\* the virtual call box->calcScore()
calcScore(box) ==
    IF box.kind = "green" THEN GreenScore(box.absorbed_weights)
    ELSE BlueScore(box.absorbed_weights)

----------------------------------------------------------------------------
(* findSmallestBox *)

\* boxes.size()
Size(bs) == Cardinality(DOMAIN bs)

RECURSIVE ScanFrom(_, _, _)
\* the for loop of findSmallestBox from index idx on; next is small_idx after
\* the iteration for idx
ScanFrom(bs, idx, small_idx) ==
    IF idx < Size(bs)
    THEN The({ScanFrom(bs, idx + 1, next) :
                 next \in {IF BoxLess(bs[idx], bs[small_idx]) THEN idx ELSE small_idx}})
    ELSE small_idx

\* mutant of findSmallestBox: the loop starts at idx{2} and never looks at box 1
findSmallestBox_SkipsOne(bs) == ScanFrom(bs, 2, 0)

findSmallestBox(bs) == ScanFrom(bs, 1, 0)

----------------------------------------------------------------------------
(* Player::takeTurn and play *)

\* the log before the first turn
NoTurn ==
    [index |-> -1, player |-> "none", weight |-> 0, absorbed |-> -1,
     scored |-> -1, size |-> 0, score |-> Num(0)]

\* the log of one turn: the player whose takeTurn ran, on the element of which
\* 0-based index of input_weights; the box boxAbsorb was called on, the box
\* calcScore was called on, the size of the history it read and what it returned
TurnRecord(player, input_weight, absorbed, scored, size, score) ==
    [index |-> it, player |-> player, weight |-> input_weight, absorbed |-> absorbed,
     scored |-> scored, size |-> size, score |-> score]

\* score_ += score, on the Player object of the given player
AddToScore(player, score) ==
    IF player = "A"
    THEN score_A' = NAdd(score_A, score) /\ score_B' = score_B
    ELSE score_B' = NAdd(score_B, score) /\ score_A' = score_A

\* mutant of Player::takeTurn: the score is read before the token is absorbed
takeTurn_ScoreFirst(player, input_weight) ==
    \E small_idx \in {findSmallestBox(boxes)} :
        \E score \in {calcScore(boxes[small_idx])} :
            \E box \in {boxAbsorb(boxes[small_idx], input_weight)} :
                /\ boxes' = [boxes EXCEPT ![small_idx] = box]
                /\ AddToScore(player, score)
                /\ turn' = TurnRecord(player, input_weight, small_idx, small_idx,
                                      Len(boxes[small_idx].absorbed_weights), score)

\* mutant of Player::takeTurn: the smallest box is first moved to the front of
\* the vector (as sorting the boxes would), and boxes[0] absorbs
takeTurn_MoveToFront(player, input_weight) ==
    \E small_idx \in {findSmallestBox(boxes)} :
        \E box \in {boxAbsorb(boxes[small_idx], input_weight)} :
            \E score \in {calcScore(box)} :
                /\ boxes' = [boxes EXCEPT ![small_idx] = boxes[0], ![0] = box]
                /\ AddToScore(player, score)
                /\ turn' = TurnRecord(player, input_weight, 0, 0,
                                      Len(box.absorbed_weights), score)

\* mutant of Player::takeTurn: score_ = calcScore() for score_ += calcScore()
takeTurn_AssignsScore(player, input_weight) ==
    \E small_idx \in {findSmallestBox(boxes)} :
        \E box \in {boxAbsorb(boxes[small_idx], input_weight)} :
            \E score \in {calcScore(box)} :
                /\ boxes' = [boxes EXCEPT ![small_idx] = box]
                /\ IF player = "A"
                   THEN score_A' = score /\ score_B' = score_B
                   ELSE score_B' = score /\ score_A' = score_A
                /\ turn' = TurnRecord(player, input_weight, small_idx, small_idx,
                                      Len(box.absorbed_weights), score)

\* mutant of Player::takeTurn: boxAbsorb is called twice with the token
takeTurn_AbsorbTwice(player, input_weight) ==
    \E small_idx \in {findSmallestBox(boxes)} :
        \E box \in {boxAbsorb(boxAbsorb(boxes[small_idx], input_weight), input_weight)} :
            \E score \in {calcScore(box)} :
                /\ boxes' = [boxes EXCEPT ![small_idx] = box]
                /\ AddToScore(player, score)
                /\ turn' = TurnRecord(player, input_weight, small_idx, small_idx,
                                      Len(box.absorbed_weights), score)

\* Player::takeTurn on the Player object of the given player: box is
\* boxes[small_idx] after boxAbsorb, score what calcScore then returns for it
takeTurn(player, input_weight) ==
    \E small_idx \in {findSmallestBox(boxes)} :
        \E box \in {boxAbsorb(boxes[small_idx], input_weight)} :
            \E score \in {calcScore(box)} :
                /\ boxes' = [boxes EXCEPT ![small_idx] = box]
                /\ AddToScore(player, score)
                /\ turn' = TurnRecord(player, input_weight, small_idx, small_idx,
                                      Len(box.absorbed_weights), score)

\* mutant of the counter: it saturates one short of 65535
NextCount_SaturatesEarly(c) == IF c < UINT16_MAX - 1 THEN c + 1 ELSE c

\* if (count < 65535u) count++
NextCount(c) == IF c < UINT16_MAX THEN c + 1 ELSE c

\* one iteration of the for loop with (count % 2u) == 0u: player_A.takeTurn
TurnA ==
    /\ pc = "loop"
    /\ it < Len(input_weights)
    /\ count % 2 = 0
    /\ takeTurn("A", input_weights[it + 1])
    /\ count' = NextCount(count)
    /\ it' = it + 1
    /\ UNCHANGED <<input_weights, made, pc, result>>

\* one iteration of the for loop with (count % 2u) != 0u: player_B.takeTurn
TurnB ==
    /\ pc = "loop"
    /\ it < Len(input_weights)
    /\ count % 2 # 0
    /\ takeTurn("B", input_weights[it + 1])
    /\ count' = NextCount(count)
    /\ it' = it + 1
    /\ UNCHANGED <<input_weights, made, pc, result>>

\* mutant of the return: the return statement sits inside the loop
Return_InsideLoop ==
    /\ pc = "loop"
    /\ it = Len(input_weights) \/ it = 1
    /\ pc' = "done"
    /\ result' = <<score_A, score_B>>
    /\ UNCHANGED <<input_weights, made, boxes, it, count, score_A, score_B, turn>>

\* the end of the loop: return std::make_pair(player_A.getScore(), player_B.getScore())
Return ==
    /\ pc = "loop"
    /\ it = Len(input_weights)
    /\ pc' = "done"
    /\ result' = <<score_A, score_B>>
    /\ UNCHANGED <<input_weights, made, boxes, it, count, score_A, score_B, turn>>

Next == TurnA \/ TurnB \/ Return

----------------------------------------------------------------------------
(* Inputs and initial states *)

RECURSIVE SeqsOfLen(_, _)
SeqsOfLen(S, n) ==
    IF n = 0 THEN {<<>>}
    ELSE {Append(s, x) : s \in SeqsOfLen(S, n - 1), x \in S}

SeqsUpTo(S, n) == UNION {SeqsOfLen(S, k) : k \in 0..n}

\* the token weights of the model: small ones and the largest uint32_t
Tokens == 0..MaxWeight \cup {UINT32_MAX}

\* the inputs of the two test cases and of the scenarios of the specification
Fib4 == <<1, 1, 2, 3>>
Fib8 == <<1, 1, 2, 3, 5, 8, 13, 21>>
Examples == {Fib4, Fib8, <<5>>, <<1, 100>>}

\* mutant of the initial weights: both green boxes are made with weight 0.0
PlayMade_TwoZero == [i \in 0..3 |-> IF i = 1 THEN 0 ELSE i]

\* the initial weights of play's boxes, in tenths
PlayMade == [i \in 0..3 |-> i]

\* the boxes play constructs: green 0.0, green 0.1, blue 0.2, blue 0.3
PlayBoxes ==
    [i \in 0..3 |-> IF i < 2 THEN makeGreenBox(PlayMade[i]) ELSE makeBlueBox(PlayMade[i])]

\* mutant of Start: Player::score_ is initialised to 1.0 for 0.0
Start_ScoreOne(ws, bs) ==
    /\ input_weights = ws
    /\ boxes = bs
    /\ made = [i \in DOMAIN bs |-> bs[i].weight_[1]]
    /\ it = 0
    /\ count = 0
    /\ score_A = Num(ScoreScale)
    /\ score_B = Num(ScoreScale)
    /\ turn = NoTurn
    /\ pc = "loop"
    /\ result = <<>>

\* the state of play before its loop, for the argument ws
Start(ws, bs) ==
    /\ input_weights = ws
    /\ boxes = bs
    /\ made = [i \in DOMAIN bs |-> bs[i].weight_[1]]
    /\ it = 0
    /\ count = 0
    /\ score_A = Num(0)
    /\ score_B = Num(0)
    /\ turn = NoTurn
    /\ pc = "loop"
    /\ result = <<>>

Init == \E ws \in SeqsUpTo(Tokens, MaxLen) \cup Examples : Start(ws, PlayBoxes)

Spec == Init /\ [][Next]_vars

----------------------------------------------------------------------------
(* Hand-made box collections: takeTurn on boxes other than play's, as a unit
   test of the box classes and of findSmallestBox would drive them.  Equal
   weights, which play's own boxes never have, occur here. *)

Kinds == {"green", "blue"}

\* a hand-made box starts at weight 0.0, so that boxes are tied from the start
makeBox(kind) ==
    IF kind = "green" THEN makeGreenBox(0) ELSE makeBlueBox(0)

Collections ==
    UNION {[0..(n - 1) -> {makeBox(k) : k \in Kinds}] : n \in 1..MaxBoxes}

InitBoxes ==
    \E bs \in Collections \cup {PlayBoxes} :
        \E ws \in SeqsUpTo(Tokens, HarnessLen) : Start(ws, bs)

SpecBoxes == InitBoxes /\ [][Next]_vars

----------------------------------------------------------------------------
(* Long games.  A game of more than 65535 turns cannot be explored turn by
   turn from its start, so a long game is taken up after a prefix of n
   zero-weight tokens.  A zero-weight token leaves the weight of the box that
   absorbs it unchanged, so box 0 (green, 0.0) absorbs every token of the
   prefix and reports the score 0 each time: ZeroPrefixState(n, ws) is the
   state play is in after n turns.  ZeroPrefixLemma checks this closed form
   against the turn-by-turn model on every short game. *)

Zeros(n) == [i \in 1..n |-> 0]

\* the value of count after i iterations of the loop
CountAfter(i) == IF i < UINT16_MAX THEN i ELSE UINT16_MAX

\* the log after n turns of zero-weight tokens
ZeroPrefixTurn(n) ==
    IF n = 0 THEN NoTurn
    ELSE [index |-> n - 1,
          player |-> IF CountAfter(n - 1) % 2 = 0 THEN "A" ELSE "B",
          weight |-> 0, absorbed |-> 0, scored |-> 0, size |-> n,
          score |-> Num(0)]

ZeroPrefixState(n, ws) ==
    /\ input_weights = ws
    /\ made = PlayMade
    /\ boxes = [PlayBoxes EXCEPT ![0].absorbed_weights = Zeros(n)]
    /\ it = n
    /\ count = CountAfter(n)
    /\ score_A = Num(0)
    /\ score_B = Num(0)
    /\ turn = ZeroPrefixTurn(n)
    /\ pc = "loop"
    /\ result = <<>>

\* In a game of play, after a prefix of zero-weight tokens the state is ZeroPrefixState
ZeroPrefixLemma ==
    (/\ pc = "loop"
     /\ made = PlayMade
     /\ \A i \in 1..it : input_weights[i] = 0)
    => ZeroPrefixState(it, input_weights)

LongTokens == {0, 1}

\* taken up just before the counter saturates, or just after
InitLong ==
    \E n \in {LongPrefix, UINT16_MAX + 1} :
        \E tail \in SeqsUpTo(LongTokens, LongTail) :
            ZeroPrefixState(n, Zeros(n) \o tail)

SpecLong == InitLong /\ [][Next]_vars

(* Games one after the other: the test cases call play one after the other in
   one process.  boxes, count, player_A and player_B are locals of play: each
   call constructs them anew.  result stays what the call before returned until
   the call under way returns. *)

TwiceTokens == {0, 1, UINT32_MAX}

TwiceInputs == SeqsUpTo(TwiceTokens, TwiceLen)

\* mutant of Call: the boxes are static and outlive the call that filled them
Call_StaticBoxes ==
    /\ pc = "done"
    /\ \E ws \in TwiceInputs : input_weights' = ws
    /\ boxes' = boxes
    /\ made' = PlayMade
    /\ it' = 0
    /\ count' = 0
    /\ score_A' = Num(0)
    /\ score_B' = Num(0)
    /\ turn' = NoTurn
    /\ pc' = "loop"
    /\ UNCHANGED result

\* play is called again after it has returned, with some argument ws
Call ==
    /\ pc = "done"
    /\ \E ws \in TwiceInputs : input_weights' = ws
    /\ boxes' = PlayBoxes
    /\ made' = PlayMade
    /\ it' = 0
    /\ count' = 0
    /\ score_A' = Num(0)
    /\ score_B' = Num(0)
    /\ turn' = NoTurn
    /\ pc' = "loop"
    /\ UNCHANGED result

InitTwice == \E ws \in TwiceInputs : Start(ws, PlayBoxes)

NextTwice == TurnA \/ TurnB \/ Return \/ Call

SpecTwice == InitTwice /\ [][NextTwice]_vars

\* play runs on: the loop takes its next iteration, then the function returns
FairSpec == Init /\ [][Next]_vars /\ WF_vars(Next)

----------------------------------------------------------------------------
(* Properties *)

\* the player the rules give the turn of 0-based index i to: A moves first
PlayerOfIndex(i) == IF i % 2 = 0 THEN "A" ELSE "B"

\* a step of the for loop: one call of takeTurn
IsTurn == it' = it + 1

\* a turn has been taken
Played == turn.index >= 0

\* C1: for every input sequence of any length, the weight of 0-based index i
\* is applied by a turn of player A if i is even and of player B if i is odd.
C1_TurnAlternation ==
    Played =>
        /\ turn.index = it - 1
        /\ turn.weight = input_weights[turn.index + 1]
        /\ turn.player = PlayerOfIndex(turn.index)

\* Turn alternation as far as it holds: on the first UINT16_MAX + 1 turns
ShortGameAlternation ==
    (Played /\ turn.index <= UINT16_MAX) => turn.player = PlayerOfIndex(turn.index)

\* i is the index of a box of least weight in bs
IsMinimal(bs, i) == \A j \in DOMAIN bs : NLeq(bs[i].weight_, bs[j].weight_)

\* i is the smallest index of a box of least weight in bs
IsFirstMinimal(bs, i) ==
    /\ i \in DOMAIN bs
    /\ IsMinimal(bs, i)
    /\ \A j \in DOMAIN bs : j < i => ~IsMinimal(bs, j)

\* C2: findSmallestBox returns the smallest index of a box of least weight, and
\* in every turn the box that absorbs the token is that box.
C2_FirstMinimumSelected ==
    [][/\ IsFirstMinimal(boxes, findSmallestBox(boxes))
       /\ IsTurn =>
            /\ IsFirstMinimal(boxes, turn'.absorbed)
            /\ boxes'[turn'.absorbed].absorbed_weights =
                   Append(boxes[turn'.absorbed].absorbed_weights, turn'.weight)]_vars

\* C2 witness: the last turn went to a box that was tied with a box after it
C2_TieBroken ==
    /\ Played
    /\ \E j \in DOMAIN boxes :
          /\ j > turn.absorbed
          /\ NAdd(boxes[j].weight_, NScale(WeightScale, ToDouble(turn.weight)))
                 = boxes[turn.absorbed].weight_

\* the score a turn on the boxes bs with the token weight is to add
ScoreOfTurn(bs, weight) ==
    calcScore(boxAbsorb(bs[findSmallestBox(bs)], weight))

\* C3: play returns as scoreA the sum over the even-indexed turns, and as scoreB
\* the sum over the odd-indexed turns, of the score the selected box reports
\* right after absorbing; play([1,1,2,3]) = (13, 25) and
\* play([1,1,2,3,5,8,13,21]) = (155, 366.25).
C3_PlayResult ==
    [][/\ it = 0 => (score_A = Num(0) /\ score_B = Num(0))
       /\ IsTurn =>
            LET s == ScoreOfTurn(boxes, input_weights[it + 1])
            IN  IF it % 2 = 0
                THEN score_A' = NAdd(score_A, s) /\ score_B' = score_B
                ELSE score_B' = NAdd(score_B, s) /\ score_A' = score_A
       /\ pc' = "done" =>
            /\ result' = <<score_A', score_B'>>
            /\ input_weights = Fib4 =>
                   result' = <<Num(13 * ScoreScale), Num(25 * ScoreScale)>>
            /\ input_weights = Fib8 =>
                   result' = <<Num(155 * ScoreScale), Num(366 * ScoreScale + 9)>>]_vars

\* the sum of the last k elements of the history h, as a real number
SumOfLast(h, k) ==
    LET S[j \in 0..k] ==
            IF j = 0 THEN Num(0) ELSE NAdd(S[j - 1], ToDouble(h[Len(h) - j + 1]))
    IN  S[k]

\* C4: for a non-empty history h of a green box, calcScore is the square of the
\* mean of the last min(3, len(h)) elements: after [w1] it is w1^2, after
\* [w1,w2] it is ((w1+w2)/2)^2, and after four or more it depends only on the
\* last three.
C4_GreenWindowLaw ==
    \A i \in DOMAIN boxes :
        LET h == boxes[i].absorbed_weights
            n == Len(h)
            k == IF n < 3 THEN n ELSE 3
            s == SumOfLast(h, k)
            score == calcScore(boxes[i])
        IN  (boxes[i].kind = "green" /\ n > 0) =>
                /\ NScale(k * k, score) = NScale(ScoreScale, NMul(s, s))
                /\ n = 1 => score = NScale(ScoreScale, NMul(ToDouble(h[1]), ToDouble(h[1])))
                /\ n = 2 => NScale(4, score) =
                       NScale(ScoreScale, NMul(NAdd(ToDouble(h[1]), ToDouble(h[2])),
                                               NAdd(ToDouble(h[1]), ToDouble(h[2]))))
                /\ n > 3 => score = GreenScore(<<h[n - 2], h[n - 1], h[n]>>)
                /\ (Played /\ turn.scored = i) => turn.score = score

\* C4 witness: a green box has just scored a history of four weights of which
\* the oldest, outside the window, is not the newest
C4_FourAbsorbed ==
    /\ Played
    /\ boxes[turn.scored].kind = "green"
    /\ Len(boxes[turn.scored].absorbed_weights) = 4
    /\ boxes[turn.scored].absorbed_weights[1] # boxes[turn.scored].absorbed_weights[4]

\* the smallest and the largest element of the history h, as real numbers
Smallest(h) ==
    CHOOSE m \in {ToDouble(h[i]) : i \in DOMAIN h} :
        \A i \in DOMAIN h : NLeq(m, ToDouble(h[i]))
Largest(h) ==
    CHOOSE m \in {ToDouble(h[i]) : i \in DOMAIN h} :
        \A i \in DOMAIN h : NLeq(ToDouble(h[i]), m)

\* Cantor's pairing (a + b)(a + b + 1) / 2 + b of two real numbers, in thirty-sixths
Cantor(a, b) ==
    NAdd(NScale(ScoreScale \div 2, NMul(NAdd(a, b), NAdd(NAdd(a, b), Num(1)))),
         NScale(ScoreScale, b))

\* C5: for a non-empty history of a blue box with minimum m and maximum M,
\* calcScore is (m+M)(m+M+1)/2 + M, with pairing(0,1) = 2; it is the same for
\* the history <<m, M>> alone (weights between them, and the order, do not count).
C5_BluePairingLaw ==
    /\ BlueScore(<<0, 1>>) = Num(2 * ScoreScale)
    /\ \A i \in DOMAIN boxes :
          LET h == boxes[i].absorbed_weights
          IN  (boxes[i].kind = "blue" /\ h # <<>>) =>
                  /\ calcScore(boxes[i]) = Cantor(Smallest(h), Largest(h))
                  /\ calcScore(boxes[i]) = BlueScore(<<MinElement(h), MaxElement(h)>>)
                  /\ calcScore(boxes[i]) = BlueScore(<<MaxElement(h), MinElement(h)>>)

\* The blue law as far as it holds: whenever the smallest and the largest
\* weight add up to less than 2^32
BluePairingLawBelowWrap ==
    \A i \in DOMAIN boxes :
        LET h == boxes[i].absorbed_weights
        IN  (/\ boxes[i].kind = "blue"
             /\ h # <<>>
             /\ NLess(NAdd(Smallest(h), Largest(h)), <<0, 1, 0>>)) =>
                calcScore(boxes[i]) = Cantor(Smallest(h), Largest(h))

\* C6: every call of calcScore on a box comes right after boxAbsorb on that same
\* box in the same turn, so the history it reads is not empty.
C6_ScoreReadAfterAbsorb ==
    Played =>
        /\ turn.scored = turn.absorbed
        /\ turn.size >= 1
        /\ IsNum(turn.score)
        /\ turn.size = Len(boxes[turn.scored].absorbed_weights)
        /\ boxes[turn.scored].absorbed_weights[turn.size] = turn.weight

\* C6 witness: a blue box has just scored its first token
C6_BlueFirstScore ==
    /\ Played
    /\ boxes[turn.scored].kind = "blue"
    /\ turn.size = 1

\* the sum of the history h, as a real number
SumOfHistory(h) == SumOfLast(h, Len(h))

\* C7: each box's weight is its initial weight plus the sum of the token
\* weights in its history.
C7_WeightInvariant ==
    \A i \in DOMAIN boxes :
        boxes[i].weight_ =
            NAdd(Num(made[i]), NScale(WeightScale, SumOfHistory(boxes[i].absorbed_weights)))

\* C7 witness: a box has absorbed three tokens, not all of weight zero
C7_SeveralAbsorbed ==
    \E i \in DOMAIN boxes :
        /\ Len(boxes[i].absorbed_weights) >= 3
        /\ SumOfHistory(boxes[i].absorbed_weights) # Num(0)

\* C8: a turn changes only the selected box and the acting player's score; the
\* other boxes and the other player's score are unchanged.
C8_TurnFrame ==
    [][IsTurn =>
          LET i == findSmallestBox(boxes)
          IN  /\ DOMAIN boxes' = DOMAIN boxes
              /\ \A j \in DOMAIN boxes : j # i => boxes'[j] = boxes[j]
              /\ boxes'[i].kind = boxes[i].kind
              /\ turn'.absorbed = i
              /\ turn'.player = "A" => score_B' = score_B
              /\ turn'.player = "B" => score_A' = score_A
              /\ made' = made /\ input_weights' = input_weights]_vars

\* C8 witness: player B has just moved on a box other than box 0, while
\* player A holds a score and box 0 a history
C8_SecondPlayerMoved ==
    /\ Played
    /\ turn.player = "B"
    /\ turn.absorbed # 0
    /\ score_A # Num(0)
    /\ boxes[0].absorbed_weights # <<>>

\* C9: each player's score starts at 0 and never decreases; every score a turn
\* adds is non-negative.
C9_ScoreMonotone ==
    [][/\ it = 0 => (score_A = Num(0) /\ score_B = Num(0))
       /\ NLeq(score_A, score_A')
       /\ NLeq(score_B, score_B')
       /\ IsTurn => NLeq(Num(0), turn'.score)]_vars

\* C9 witness: both players hold a positive score after four turns or more
C9_BothScored ==
    /\ it >= 4
    /\ NLess(Num(0), score_A)
    /\ NLess(Num(0), score_B)

\* C10: play takes exactly one turn per input weight, in input order, and then
\* returns; it never loops or stops early.
C10_Terminates ==
    /\ [][/\ IsTurn => (turn'.index = it /\ turn'.weight = input_weights[it + 1])
          /\ pc' = "done" => it' = Len(input_weights)
          /\ it' = it \/ IsTurn]_vars
    /\ <>(pc = "done" /\ it = Len(input_weights))

\* C10 witness: play has returned after five turns
C10_ReturnedAfterTurns ==
    /\ pc = "done"
    /\ it >= 5
    /\ turn.index = it - 1

\* C11: play on the empty sequence takes no turn, leaves the four boxes at their
\* initial weights 0.0, 0.1, 0.2, 0.3 with empty histories, and returns (0.0, 0.0).
C11_EmptyInput ==
    input_weights = <<>> =>
        /\ it = 0
        /\ count = 0
        /\ turn = NoTurn
        /\ DOMAIN boxes = 0..3
        /\ \A i \in DOMAIN boxes :
              /\ boxes[i].weight_ = Num(PlayMade[i])
              /\ boxes[i].absorbed_weights = <<>>
        /\ pc = "done" => result = <<Num(0), Num(0)>>

\* C11 witness: play has returned on the empty sequence
C11_EmptyReturned ==
    /\ input_weights = <<>>
    /\ pc = "done"
    /\ result # <<>>

\* the locals of play when its loop begins
FreshLocals ==
    [boxes |-> PlayBoxes, count |-> 0, score_A |-> Num(0), score_B |-> Num(0)]

\* the locals of play after one iteration of its loop, from the locals s
Iterate(s, weight) ==
    LET small_idx == findSmallestBox(s.boxes)
        box == boxAbsorb(s.boxes[small_idx], weight)
        score == calcScore(box)
    IN  [boxes |-> [s.boxes EXCEPT ![small_idx] = box],
         count |-> NextCount(s.count),
         score_A |-> IF s.count % 2 = 0 THEN NAdd(s.score_A, score) ELSE s.score_A,
         score_B |-> IF s.count % 2 = 0 THEN s.score_B ELSE NAdd(s.score_B, score)]

RECURSIVE LocalsAfter(_, _)
\* the locals of play after k iterations of its loop over ws, as a function of
\* ws and k alone
LocalsAfter(ws, k) ==
    IF k = 0 THEN FreshLocals ELSE Iterate(LocalsAfter(ws, k - 1), ws[k])

\* C12: the state of a game is a function of its input sequence and of the
\* number of turns taken: every call of play on the same input passes through
\* the same states and returns the same pair, whatever calls came before it.
C12_Deterministic ==
    /\ [boxes |-> boxes, count |-> count, score_A |-> score_A, score_B |-> score_B]
           = LocalsAfter(input_weights, it)
    /\ made = PlayMade
    /\ it = 0 => turn = NoTurn
    /\ pc = "done" =>
           /\ it = Len(input_weights)
           /\ result = <<LocalsAfter(input_weights, it).score_A,
                         LocalsAfter(input_weights, it).score_B>>

\* C12 witness: a later call of play is three turns on, after an earlier call
\* that used the boxes has returned
C12_LaterCall ==
    /\ pc = "loop"
    /\ result # <<>>
    /\ result # <<Num(0), Num(0)>>
    /\ it >= 3

\* C13: for every minimum m and maximum M of a blue box's history, also when
\* m + M >= 2^32, the sum the pairing uses is the real number m + M, and the
\* score is (m+M)(m+M+1)/2 + M, never computed from (m + M) mod 2^32.
C13_NoWrapAround ==
    \A i \in DOMAIN boxes :
        LET h == boxes[i].absorbed_weights
            m == MinElement(h)
            M == MaxElement(h)
        IN  (boxes[i].kind = "blue" /\ h # <<>>) =>
                /\ AddU32(m, M) = NAdd(ToDouble(m), ToDouble(M))
                /\ pairing(m, M) = Cantor(ToDouble(m), ToDouble(M))
                /\ (Played /\ turn.scored = i) =>
                       turn.score = Cantor(ToDouble(m), ToDouble(M))

\* C14: play's counter never exceeds 65535 and is min(i, 65535) before the turn
\* of index i, so on every turn of index at most 65535 (every input of length
\* at most 65536) the player is the one an unbounded index gives: A on even
\* i, B on odd i.
C14_CounterAgrees ==
    /\ count <= UINT16_MAX
    /\ count = (IF it <= UINT16_MAX THEN it ELSE UINT16_MAX)
    /\ (pc = "loop" /\ it < Len(input_weights) /\ it <= UINT16_MAX) =>
           (count % 2 = 0 <=> it % 2 = 0)
    /\ (Played /\ turn.index <= UINT16_MAX) =>
           /\ turn.index = it - 1
           /\ turn.player = PlayerOfIndex(turn.index)

\* C14 witness: the last turn of a game of 65536 tokens has been taken, by
\* player B, with the counter saturated
C14_LastShortTurn ==
    /\ it = UINT16_MAX + 1
    /\ Len(input_weights) = it
    /\ count = UINT16_MAX
    /\ turn.index = UINT16_MAX
    /\ turn.weight = 1
    /\ turn.player = "B"

\* the sequence p is a prefix of the sequence h
IsPrefix(p, h) ==
    /\ Len(p) <= Len(h)
    /\ \A j \in 1..Len(p) : p[j] = h[j]

\* C15: boxAbsorb(w) extends the history of its box by exactly one element, w,
\* at the end; the history before is a prefix of the history after, and no
\* step of the game reorders, removes or truncates a history.
C15_AppendOnly ==
    [][/\ \A i \in DOMAIN boxes :
             /\ IsPrefix(boxes[i].absorbed_weights, boxes'[i].absorbed_weights)
             /\ boxAbsorb(boxes[i], 1).absorbed_weights =
                    Append(boxes[i].absorbed_weights, 1)
             /\ \/ boxes'[i].absorbed_weights = boxes[i].absorbed_weights
                \/ /\ IsTurn
                   /\ i = turn'.absorbed
                   /\ boxes'[i].absorbed_weights =
                          Append(boxes[i].absorbed_weights, input_weights[it + 1])
       /\ IsTurn =>
             Len(boxes'[turn'.absorbed].absorbed_weights) =
                 Len(boxes[turn'.absorbed].absorbed_weights) + 1]_vars

\* C15 witness: the box of the last turn holds a history of three tokens or
\* more whose order shows: its first and last elements differ
C15_OrderedHistory ==
    /\ Played
    /\ Len(boxes[turn.absorbed].absorbed_weights) >= 3
    /\ boxes[turn.absorbed].absorbed_weights[1] # turn.weight

\* how often the weight x occurs in the sequence h
Occurrences(x, h) == Cardinality({j \in DOMAIN h : h[j] = x})

\* the first k input weights
Consumed(k) == SubSeq(input_weights, 1, k)

\* C16: after k turns the lengths of the four histories add up to k, the
\* histories together hold each weight as often as the first k input weights
\* do, and the boxes' weights have grown by the sum of the first k input weights.
C16_ConsumedOnce ==
    LET n == Size(boxes)
        Lengths[j \in 0..n] ==
            IF j = 0 THEN 0 ELSE Lengths[j - 1] + Len(boxes[j - 1].absorbed_weights)
        Weights == {input_weights[j] : j \in DOMAIN input_weights}
        Held[x \in Weights, j \in 0..n] ==
            IF j = 0 THEN 0
            ELSE Held[x, j - 1] + Occurrences(x, boxes[j - 1].absorbed_weights)
        Growth[j \in 0..n] ==
            IF j = 0 THEN Num(0)
            ELSE NAdd(Growth[j - 1],
                      NAdd(boxes[j - 1].weight_, NScale(0 - 1, Num(made[j - 1]))))
    IN  made = PlayMade =>
            /\ n = 4
            /\ Lengths[n] = it
            /\ \A x \in Weights : Held[x, n] = Occurrences(x, Consumed(it))
            /\ \A i \in DOMAIN boxes :
                   \A j \in DOMAIN boxes[i].absorbed_weights :
                       Occurrences(boxes[i].absorbed_weights[j], Consumed(it)) >= 1
            /\ Growth[n] = NScale(WeightScale, SumOfHistory(Consumed(it)))

\* C16 witness: five tokens have been consumed, two of them of the same
\* weight, and each of the four boxes holds one at least
C16_AllBoxesHold ==
    /\ it = 5
    /\ \A i \in DOMAIN boxes : boxes[i].absorbed_weights # <<>>
    /\ \E j \in 1..it : Occurrences(input_weights[j], Consumed(it)) >= 2

\* C17: in every reachable state of play the four boxes have pairwise distinct
\* weights, so the box of least weight is unique at every selection and the
\* tie-break of findSmallestBox is never exercised.
C17_NoTies ==
    /\ \A i, j \in DOMAIN boxes : i # j => boxes[i].weight_ # boxes[j].weight_
    /\ \A j \in DOMAIN boxes :
          j # findSmallestBox(boxes) =>
              NLess(boxes[findSmallestBox(boxes)].weight_, boxes[j].weight_)
    /\ \A j \in DOMAIN boxes : IsMinimal(boxes, j) => j = findSmallestBox(boxes)

\* C17 witness: two boxes that have both absorbed tokens differ in weight by
\* their initial weights alone
C17_NearTie ==
    /\ Played
    /\ \E i, j \in DOMAIN boxes :
          /\ i < j
          /\ boxes[i].absorbed_weights # <<>>
          /\ boxes[j].absorbed_weights # <<>>
          /\ boxes[j].weight_ = NAdd(boxes[i].weight_, Num(made[j] - made[i]))

\* the first k input weights are all at least 1
OpensPositive(k) ==
    /\ k <= Len(input_weights)
    /\ \A j \in 1..k : LessU32(0, input_weights[j])

\* C18: if the first four input weights are all at least 1, the turns 0, 1, 2, 3
\* select the boxes 0, 1, 2, 3 in that order and after four turns every box
\* has absorbed exactly one token; a token of weight 0 leaves the weight of the
\* selected box unchanged, and the next turn selects the same box again.
C18_OpeningOrder ==
    [][/\ (IsTurn /\ it < 4 /\ OpensPositive(it + 1)) => turn'.absorbed = it
       /\ (it = 4 /\ OpensPositive(4)) =>
              \A i \in DOMAIN boxes :
                  boxes[i].absorbed_weights = <<input_weights[i + 1]>>
       /\ (IsTurn /\ input_weights[it + 1] = 0) =>
              /\ boxes'[turn'.absorbed].weight_ = boxes[turn'.absorbed].weight_
              /\ findSmallestBox(boxes') = turn'.absorbed
       /\ (IsTurn /\ Played /\ turn.weight = 0) => turn'.absorbed = turn.absorbed]_vars

\* C18 witness: four tokens of weight 1 or more have opened the game, the
\* largest uint32_t among them, and the fourth went to box 3
C18_FourOpened ==
    /\ it = 4
    /\ OpensPositive(4)
    /\ turn.absorbed = 3
    /\ \E j \in 1..4 : input_weights[j] = UINT32_MAX

====
